---- MODULE Spec2Model ----
(***************************************************************************)
(* Model of volume-monitor/monitor.py: the warm-up pass and the polling    *)
(* loop of main(), with the token source, the market-data provider and the *)
(* two sinks (Telegram, dashboard history) as nondeterministic inputs.     *)
(* One action is one iteration of a `for address in addresses` body, or    *)
(* one load_tokens()/time.sleep() statement.                               *)
(***************************************************************************)
EXTENDS Integers, Sequences, FiniteSets, TLC

(* ---------------------------------------------------------------- bounds *)
\* number of cycles of the `while True` loop that are explored
MaxCycles == 2
\* length of the longest pair list fetch_pair is applied to on its own
MaxPairs == 3

(* ------------------------------------------------------ program constants *)
INTERVAL_SEC == 300
ALERT_VOLUME_THRESHOLD == 50000
\* the `len(a) >= 20` filter of warm_up and main
MinAddressLen == 20
\* the cooldown window the specification text speaks of (no counterpart in monitor.py)
COOLDOWN_SECONDS == 3600
\* what time.sleep(INTERVAL_SEC) may take beyond INTERVAL_SEC (a sleep lasts at
\* least as long as asked, and longer by an arbitrary amount when the process
\* is not scheduled): nothing, or as long as the cooldown window
Lateness == {0, COOLDOWN_SECONDS}

(* ----------------------------------------------------------------- values *)
\* Python floats and None, as tagged records: a number, nan (float("nan"),
\* or the NaN literal that json accepts), or None
Num(n) == [k |-> "num", v |-> n]
NaN == [k |-> "nan", v |-> 0]
None == [k |-> "none", v |-> 0]
\* floats that are not integers of the model's range: n + 0.5, n * 10^6 (for
\* n >= 1000), and positive infinity (JSON Infinity, or a literal like 1e400)
Half(n) == [k |-> "half", v |-> n]
Mega(n) == [k |-> "mega", v |-> n]
Inf == [k |-> "inf", v |-> 0]
\* raw JSON content of pair["volume"]["m5"]: absent/null; a value float()
\* rejects with TypeError or ValueError (a list, a word); or an integer too
\* large for a float, which float() rejects with OverflowError
Missing == [k |-> "missing", v |-> 0]
Unparseable == [k |-> "unparseable", v |-> 0]
Huge == [k |-> "huge", v |-> 0]

\* the 5-minute volumes the provider reports in the model: the two numbers
\* at the threshold, nan, infinity, and what float() does not convert
Vols == {ALERT_VOLUME_THRESHOLD - 1, ALERT_VOLUME_THRESHOLD}
RawVols == {Missing, Unparseable, Huge, NaN, Inf} \cup {Num(v) : v \in Vols}
FloatVals == {None, NaN, Inf} \cup {Num(v) : v \in Vols}

\* address strings: 20 characters (the boundary), 21 characters, 19 characters, empty
AddrA == "AAAAAAAAAAAAAAAAAAAA"
AddrB == "BBBBBBBBBBBBBBBBBBBBB"
AddrShort == "SSSSSSSSSSSSSSSSSSS"
AddrUniverse == {AddrA, AddrB, AddrShort, ""}

(* -------------------------------------------------------- token source *)
\* a token descriptor of config.json: a bare string, or an object whose
\* "address" is the string ("" stands for an absent or empty address)
Str(s) == [isdict |-> FALSE, address |-> s]
Obj(s) == [isdict |-> TRUE, address |-> s]

\* contents of config.json: no file; text that is not JSON or JSON that is not
\* an object (json.loads or data.get raises); or an object with a token list
\* (an absent or null "tokens" reads as the empty list)
CfgMissing == [kind |-> "missing", tokens |-> <<>>]
CfgUnparseable == [kind |-> "unparseable", tokens |-> <<>>]
Cfg(ts) == [kind |-> "ok", tokens |-> ts]
Configs ==
  { CfgMissing, CfgUnparseable,
    Cfg(<<Str(AddrA), Obj(AddrA)>>),
    Cfg(<<Obj(AddrA), Str(AddrB)>>),
    Cfg(<<Str(AddrShort), Obj(""), Str(AddrB)>>) }

\* the list comprehension of load_tokens: the truthy addresses, in order
RECURSIVE TokenAddresses(_)
TokenAddresses(ts) ==
  IF ts = <<>> THEN <<>>
  ELSE IF Head(ts).address # "" THEN <<Head(ts).address>> \o TokenAddresses(Tail(ts))
       ELSE TokenAddresses(Tail(ts))

\* load_tokens(): [raised, value]; json.loads and data.get are not guarded
load_tokens(cfg) ==
  CASE cfg.kind = "missing" -> [raised |-> FALSE, value |-> <<>>]
    [] cfg.kind = "unparseable" -> [raised |-> TRUE, value |-> <<>>]
    [] OTHER -> [raised |-> FALSE, value |-> TokenAddresses(cfg.tokens)]

\* the comprehension without its length test: [a for a in load_tokens() if a]
RECURSIVE WatchList_unfiltered(_)
WatchList_unfiltered(as) ==
  IF as = <<>> THEN <<>>
  ELSE IF Head(as) # ""
       THEN <<Head(as)>> \o WatchList_unfiltered(Tail(as))
       ELSE WatchList_unfiltered(Tail(as))

\* [a for a in load_tokens() if a and len(a) >= 20]
RECURSIVE WatchList(_)
WatchList(as) ==
  IF as = <<>> THEN <<>>
  ELSE IF Head(as) # "" /\ Len(Head(as)) >= MinAddressLen
       THEN <<Head(as)>> \o WatchList(Tail(as))
       ELSE WatchList(Tail(as))

(* ------------------------------------------------- market-data provider *)
\* pair["liquidity"]["usd"]: absent (read as 0), nan, or a number
LiqMissing == [k |-> "missing", v |-> 0]
Liqs == {LiqMissing, NaN, Num(1), Num(2)}
\* shape of a pair record: well-formed; the empty object {}; a truthy
\* non-object under "volume" / "baseToken", or a truthy non-string symbol; a
\* marketCap or a priceUsd too large for a float; a symbol that the encoding
\* of stdout cannot encode (print raises UnicodeEncodeError)
Shapes == {"ok", "empty", "bad_volume", "bad_baseToken", "bad_symbol",
           "huge_marketCap", "huge_priceUsd", "unprintable"}
RaisingShapes == {"bad_volume", "bad_baseToken", "bad_symbol", "huge_marketCap"}
Pair(l, sh, m) == [liq |-> l, shape |-> sh, m5 |-> m]
NoPair == Pair(LiqMissing, "none", Missing)

OkPairs == {Pair(Num(1), "ok", m) : m \in RawVols}
\* pairs that make get_volume5m_and_symbol raise, whatever the volume
BadPairs ==
  {Pair(Num(1), sh, Num(ALERT_VOLUME_THRESHOLD)) : sh \in RaisingShapes}
    \cup {Pair(Num(1), "bad_symbol", Missing), Pair(LiqMissing, "empty", Missing)}
\* pairs whose symbol cannot be printed or whose price cannot be converted,
\* without and with a volume
LatePairs ==
  {Pair(Num(1), sh, m) : sh \in {"unprintable", "huge_priceUsd"},
                         m \in {Missing, Num(ALERT_VOLUME_THRESHOLD)}}
    \cup {Pair(Num(1), "unprintable", Num(ALERT_VOLUME_THRESHOLD - 1))}
\* two-pair answers: the pairs differ in volume, so the choice matters
TwoLiqs ==
  {<<Num(1), Num(2)>>, <<Num(2), Num(1)>>, <<Num(1), Num(1)>>,
   <<LiqMissing, Num(1)>>, <<LiqMissing, LiqMissing>>, <<NaN, Num(2)>>,
   <<Num(2), NaN>>}
TwoPairs ==
  {<<Pair(l[1], "ok", Num(ALERT_VOLUME_THRESHOLD - 1)),
     Pair(l[2], "ok", Num(ALERT_VOLUME_THRESHOLD))>> : l \in TwoLiqs}

\* the ways a request fails inside fetch_pair: httpx timeout, transport error,
\* status # 200, body that is not JSON, "pairs" absent or empty, and a pair
\* list whose entries make the sort key raise
FailKinds == {"timeout", "transport", "non200", "malformed", "nopairs", "badpairs"}
Fail(kd) == [kind |-> kd, pairs |-> <<>>]
Ok(ps) == [kind |-> "ok", pairs |-> ps]
Responses ==
  {Fail(kd) : kd \in FailKinds}
    \cup {Ok(<<p>>) : p \in OkPairs \cup BadPairs \cup LatePairs}
    \cup {Ok(ps) : ps \in TwoPairs}

\* `if not pair`: None and the empty object are falsy
Falsy(pair) == pair.shape \in {"none", "empty"}

\* float(m5) raised an exception that except (TypeError, ValueError) lets pass
Overflow == [k |-> "raise", v |-> 0]

\* float(m5) with an except branch that answers nan
ParseFloat_nan(raw) ==
  IF raw.k = "missing" THEN None
  ELSE IF raw.k = "unparseable" THEN NaN
  ELSE IF raw.k = "huge" THEN Overflow ELSE raw

\* float(m5) under except (TypeError, ValueError), and m5 is None;
\* OverflowError is not caught
ParseFloat(raw) ==
  IF raw.k \in {"missing", "unparseable"} THEN None
  ELSE IF raw.k = "huge" THEN Overflow ELSE raw

\* get_volume5m_and_symbol(pair): vol.get / base.get / symbol.strip raise
\* AttributeError on a wrongly typed field and float() raises OverflowError on
\* an m5 or a marketCap too large, all outside any try
get_volume5m_and_symbol(pair) ==
  IF pair.shape \in RaisingShapes \/ ParseFloat(pair.m5) = Overflow
  THEN [raised |-> TRUE, v5 |-> None]
  ELSE [raised |-> FALSE, v5 |-> ParseFloat(pair.m5)]

\* print(f"... {symbol} ...") at lines 154 and 185: UnicodeEncodeError when
\* stdout cannot encode the symbol
PrintRaises(pair) == pair.shape = "unprintable"

\* float(pair.get("priceUsd") or 0) at line 204, under
\* except (TypeError, ValueError): OverflowError is not caught
PriceRaises(pair) == pair.shape = "huge_priceUsd"

(* ------------------------------------------------------- binary floats *)
\* A natural number as the sequence of its bits, lowest first, without high
\* zeros; <<>> is 0. A float is [neg, m, e]: the number (+/-) m * 2^e, with m
\* of at most 53 bits once rounded (IEEE 754 binary64, round to nearest even).
RECURSIVE BitsOf(_)
BitsOf(n) == IF n = 0 THEN <<>> ELSE <<n % 2>> \o BitsOf(n \div 2)

RECURSIVE IntOf(_)
IntOf(b) == IF b = <<>> THEN 0 ELSE Head(b) + 2 * IntOf(Tail(b))

RECURSIVE Trim(_)
Trim(b) ==
  IF b = <<>> \/ b[Len(b)] = 1 THEN b ELSE Trim(SubSeq(b, 1, Len(b) - 1))

Zeros(n) == [i \in 1..n |-> 0]

\* b * 2^n
Shl(b, n) == IF b = <<>> THEN <<>> ELSE Zeros(n) \o b

\* b * k + c for small naturals k and c
RECURSIVE MulAdd(_, _, _)
MulAdd(b, k, c) ==
  IF b = <<>> THEN BitsOf(c)
  ELSE LET t == Head(b) * k + c
       IN  <<t % 2>> \o MulAdd(Tail(b), k, t \div 2)

\* a + b + carry
RECURSIVE AddCarry(_, _, _)
AddCarry(a, b, carry) ==
  IF a = <<>> /\ b = <<>> THEN BitsOf(carry)
  ELSE LET x == IF a = <<>> THEN 0 ELSE Head(a)
           y == IF b = <<>> THEN 0 ELSE Head(b)
           t == x + y + carry
       IN  <<t % 2>> \o AddCarry(IF a = <<>> THEN <<>> ELSE Tail(a),
                                 IF b = <<>> THEN <<>> ELSE Tail(b), t \div 2)
Plus(a, b) == AddCarry(a, b, 0)

\* a - b for a >= b
RECURSIVE SubBorrow(_, _, _)
SubBorrow(a, b, borrow) ==
  IF a = <<>> THEN <<>>
  ELSE LET y == IF b = <<>> THEN 0 ELSE Head(b)
           t == Head(a) - y - borrow
       IN  <<t % 2>> \o SubBorrow(Tail(a), IF b = <<>> THEN <<>> ELSE Tail(b),
                                  IF t < 0 THEN 1 ELSE 0)
Minus(a, b) == Trim(SubBorrow(a, b, 0))

\* a < b
Less(a, b) ==
  \/ Len(a) < Len(b)
  \/ /\ Len(a) = Len(b)
     /\ \E i \in DOMAIN a :
          /\ a[i] < b[i]
          /\ \A j \in (i + 1)..Len(a) : a[j] = b[j]

\* one step of the long division by b # 0: the next lower bit of the dividend
\* joins the remainder and the quotient gains its next lower bit
DivBit(b, s, bit) ==
  LET r1 == Trim(<<bit>> \o s.r)
  IN  IF Less(r1, b) THEN [q |-> <<0>> \o s.q, r |-> r1]
      ELSE [q |-> <<1>> \o s.q, r |-> Minus(r1, b)]

\* the quotient and the remainder of a by b # 0, the bits of a taken from the
\* highest down; s.q holds one bit for each bit of a taken so far
RECURSIVE DivStep(_, _, _)
DivStep(a, b, s) ==
  IF Len(s.q) = Len(a) THEN [q |-> Trim(s.q), r |-> s.r]
  ELSE DivStep(a, b, DivBit(b, s, a[Len(a) - Len(s.q)]))
DivMod(a, b) ==
  LET skip == IF Len(a) < Len(b) THEN Len(a) ELSE Len(b) - 1
  IN  DivStep(a, b, [q |-> Zeros(skip),
                     r |-> Trim(SubSeq(a, Len(a) - skip + 1, Len(a)))])

\* the float nearest to (+/-) m * 2^e, ties to the even mantissa
Round53(neg, m, e) ==
  IF Len(m) <= 53 THEN [neg |-> neg, m |-> m, e |-> e]
  ELSE LET drop == Len(m) - 53
           high == SubSeq(m, drop + 1, Len(m))
           rest == \E i \in 1..(drop - 1) : m[i] = 1
           up == m[drop] = 1 /\ (rest \/ high[1] = 1)
           r == IF up THEN MulAdd(high, 1, 1) ELSE high
       IN  IF Len(r) = 54
           THEN [neg |-> neg, m |-> SubSeq(r, 2, 54), e |-> e + drop + 1]
           ELSE [neg |-> neg, m |-> r, e |-> e + drop]

\* the float x / y for y # 0: at least 55 bits of the quotient and one bit
\* that tells whether a remainder is left, rounded
FloatDiv(x, y) ==
  IF x.m = <<>> THEN [neg |-> x.neg # y.neg, m |-> <<>>, e |-> 0]
  ELSE LET need == 55 + Len(y.m) - Len(x.m)
           k == IF need > 0 THEN need ELSE 0
           d == DivMod(Shl(x.m, k), y.m)
           sticky == IF d.r = <<>> THEN 0 ELSE 1
       IN  Round53(x.neg # y.neg, <<sticky>> \o d.q, x.e - y.e - k - 1)

\* the float x - 1.0
FloatMinusOne(x) ==
  LET e == IF x.e < 0 THEN x.e ELSE 0
      a == Shl(x.m, x.e - e)
      one == Shl(<<1>>, -e)
  IN  IF x.neg THEN Round53(TRUE, Plus(a, one), e)
      ELSE IF Less(a, one) THEN Round53(TRUE, Minus(one, a), e)
      ELSE Round53(FALSE, Minus(a, one), e)

\* the float x * k for a small natural k
FloatTimes(x, k) == Round53(x.neg, MulAdd(x.m, k, 0), x.e)

\* x < y for floats
FloatLess(x, y) ==
  LET e == IF x.e < y.e THEN x.e ELSE y.e
      a == Shl(x.m, x.e - e)
      b == Shl(y.m, y.e - e)
      xneg == x.neg /\ a # <<>>
      yneg == y.neg /\ b # <<>>
  IN  IF xneg /\ ~yneg THEN TRUE
      ELSE IF ~xneg /\ yneg THEN FALSE
      ELSE IF xneg THEN Less(b, a) ELSE Less(a, b)

\* |round(x)| for the number m * 2^e, exact: ties go to the even integer
RoundExact(m, e) ==
  LET n == -e
      whole == IF e >= 0 THEN Shl(m, e)
               ELSE IF Len(m) > n THEN SubSeq(m, n + 1, Len(m)) ELSE <<>>
      half == e < 0 /\ Len(m) >= n /\ m[n] = 1
      rest == e < 0 /\ \E i \in 1..(n - 1) : i <= Len(m) /\ m[i] = 1
      odd == whole # <<>> /\ whole[1] = 1
  IN  IF half /\ (rest \/ odd) THEN MulAdd(whole, 1, 1) ELSE whole

(* ---------------------------------------------------------------- strings *)
\* a str is the sequence of its characters
Digits == <<"0", "1", "2", "3", "4", "5", "6", "7", "8", "9">>

\* str(n) for an int n >= 0
RECURSIVE StrNat(_)
StrNat(n) ==
  IF n < 10 THEN <<Digits[n + 1]>>
  ELSE StrNat(n \div 10) \o <<Digits[(n % 10) + 1]>>

\* str(n) and f"{n}" for an int: a minus sign before the digits of a negative
StrInt(n) == IF n < 0 THEN <<"-">> \o StrNat(-n) ELSE StrNat(n)

\* the quotient and the remainder of b by ten, the bits of b taken from the
\* highest down; s.q holds one bit for each bit of b taken so far
RECURSIVE DivTenStep(_, _)
DivTenStep(b, s) ==
  IF Len(s.q) = Len(b) THEN [q |-> Trim(s.q), r |-> s.r]
  ELSE LET r1 == 2 * s.r + b[Len(b) - Len(s.q)]
       IN  DivTenStep(b, IF r1 >= 10 THEN [q |-> <<1>> \o s.q, r |-> r1 - 10]
                         ELSE [q |-> <<0>> \o s.q, r |-> r1])
DivTen(b) == DivTenStep(b, [q |-> <<>>, r |-> 0])

\* str(n) for an int n >= 0 of any size, given by its bits
RECURSIVE StrBits(_)
StrBits(b) ==
  LET d == DivTen(b)
  IN  IF d.q = <<>> THEN <<Digits[d.r + 1]>>
      ELSE StrBits(d.q) \o <<Digits[d.r + 1]>>

\* f"{x:.1f}" for x >= 0 given as t tenths: digits, point, one digit
Fixed1(t) == StrNat(t \div 10) \o <<".", Digits[(t % 10) + 1]>>

\* the same for the tenths given by their bits
Fixed1Bits(b) ==
  LET d == DivTen(b)
  IN  StrBits(d.q) \o <<".", Digits[d.r + 1]>>

(* ------------------------------------------------------ float arithmetic *)
\* the float a finite value of the model is: an integer n, n + 0.5, n * 10^6
Abs(n) == IF n < 0 THEN -n ELSE n
ToFloat(x) ==
  IF x.k = "half"
  THEN [neg |-> 2 * x.v + 1 < 0, m |-> BitsOf(Abs(2 * x.v + 1)), e |-> -1]
  ELSE IF x.k = "mega"
  THEN [neg |-> x.v < 0, m |-> MulAdd(BitsOf(Abs(x.v)), 10^6, 0), e |-> 0]
  ELSE [neg |-> x.v < 0, m |-> BitsOf(Abs(x.v)), e |-> 0]
Finite(x) == x.k \in {"num", "half", "mega"}

\* x < y on floats: false when one of them is nan
ValLess(x, y) ==
  IF x.k = "num" /\ y.k = "num" THEN x.v < y.v
  ELSE IF Finite(x) /\ Finite(y) THEN FloatLess(ToFloat(x), ToFloat(y))
  ELSE Finite(x) /\ y.k = "inf"

\* vol5m < ALERT_VOLUME_THRESHOLD on a float: false for nan
LessThanThreshold(x) == ValLess(x, Num(ALERT_VOLUME_THRESHOLD))

\* `vol5m is None or vol5m < ALERT_VOLUME_THRESHOLD`: the iteration continues
BelowOrAbsent(vol5m) == vol5m = None \/ LessThanThreshold(vol5m)

\* `prev_vol and prev_vol > 0`: false for None, for 0 and for nan
HasPositivePrev(prev_vol) == ValLess(Num(0), prev_vol)

\* the int round() returns: a number of the model's range, or, beyond it, the
\* text str() gives for it
Pct(n) == [k |-> "num", v |-> n]
BigPct(text) == [k |-> "big", v |-> text]
NoPct == [k |-> "none", v |-> 0]
PctRaise == [k |-> "raise", v |-> 0]
Rounded(x) ==
  LET mag == RoundExact(x.m, x.e)
  IN  IF Len(mag) <= 30 THEN Pct(IF x.neg THEN -IntOf(mag) ELSE IntOf(mag))
      ELSE BigPct((IF x.neg THEN <<"-">> ELSE <<>>) \o StrBits(mag))

\* line 189 raises: the quotient of the two floats is nan (inf / inf, or a nan
\* vol5m) and round() raises ValueError, or it is inf and round() raises
\* OverflowError. x / inf is 0.0, and no quotient of two finite values of the
\* model overflows
RoundRaises(vol5m, prev_vol) == HasPositivePrev(prev_vol) /\ ~Finite(vol5m)

\* round(((vol5m / prev_vol) - 1) * 100) at line 189: [k |-> "none"] when no
\* percentage is computed; "raise" when round() raises; else the integer that
\* the three float operations and round() yield
increase_pct(vol5m, prev_vol) ==
  IF ~HasPositivePrev(prev_vol) THEN NoPct
  ELSE IF RoundRaises(vol5m, prev_vol) THEN PctRaise
  ELSE IF prev_vol.k = "inf" THEN Pct(-100)
  ELSE Rounded(FloatTimes(FloatMinusOne(FloatDiv(ToFloat(vol5m),
                                                 ToFloat(prev_vol))), 100))

\* main, lines 183-200: whether send_telegram is reached for the observation
\* vol5m when the remembered volume is prev_vol and the print of line 185 does
\* not raise
Dispatched(vol5m, prev_vol) ==
  ~BelowOrAbsent(vol5m) /\ ~RoundRaises(vol5m, prev_vol)

\* the characters _MD2_ESCAPE_RE matches (the backquote is written by name)
MD2Reserved ==
  {"_", "*", "[", "]", "(", ")", "~", "backquote", ">", "#", "+", "=", "|", "{",
   "}", ".", "!", "-", "\\"}

\* _escape_md2(s): a backslash before every reserved character
RECURSIVE escape_md2(_)
escape_md2(s) ==
  IF s = <<>> THEN <<>>
  ELSE (IF Head(s) \in MD2Reserved THEN <<"\\", Head(s)>> ELSE <<Head(s)>>)
         \o escape_md2(Tail(s))

\* f"{x:.1f}" for the float x >= 0: the decimal with one digit after the point
\* that is nearest to the value the float has, ties to the even digit
FormatFixed1(x) == Fixed1Bits(RoundExact(MulAdd(x.m, 10, 0), x.e))

\* m * 2^e with its fraction cut off
FloorExact(m, e) ==
  IF e >= 0 THEN Shl(m, e)
  ELSE IF Len(m) > -e THEN SubSeq(m, 1 - e, Len(m)) ELSE <<>>

\* the same with the digits after the first decimal cut off
FormatFixed1_cut(x) == Fixed1Bits(FloorExact(MulAdd(x.m, 10, 0), x.e))

\* format_vol that cuts the quotient off after the first decimal
format_vol_truncating(value) ==
  IF value = None \/ value.k = "nan" THEN <<"0">>
  ELSE IF value.k = "inf" THEN <<"i", "n", "f", "b">>
  ELSE LET x == IF ValLess(value, Num(0)) THEN ToFloat(Num(0)) ELSE ToFloat(value)
           over(unit) == FloatDiv(x, ToFloat(Num(unit)))
       IN  IF ~FloatLess(x, ToFloat(Num(10^9)))
           THEN FormatFixed1_cut(over(10^9)) \o <<"b">>
           ELSE IF ~FloatLess(x, ToFloat(Num(10^6)))
           THEN FormatFixed1_cut(over(10^6)) \o <<"m">>
           ELSE IF ~FloatLess(x, ToFloat(Num(10^3)))
           THEN FormatFixed1_cut(over(10^3)) \o <<"k">>
           ELSE StrBits(RoundExact(x.m, x.e))

\* format_vol(value), lines 51-63: "0" for None and nan, a negative value is
\* taken as 0, the unit is chosen by comparing the value itself, and below
\* 1e3 str(int(round(value))) rounds ties to the even integer; inf / 1e9 is
\* inf, which .1f writes as "inf"
format_vol(value) ==
  IF value = None \/ value.k = "nan" THEN <<"0">>
  ELSE IF value.k = "inf" THEN <<"i", "n", "f", "b">>
  ELSE LET x == IF ValLess(value, Num(0)) THEN ToFloat(Num(0)) ELSE ToFloat(value)
           over(unit) == FloatDiv(x, ToFloat(Num(unit)))
       IN  IF ~FloatLess(x, ToFloat(Num(10^9)))
           THEN FormatFixed1(over(10^9)) \o <<"b">>
           ELSE IF ~FloatLess(x, ToFloat(Num(10^6)))
           THEN FormatFixed1(over(10^6)) \o <<"m">>
           ELSE IF ~FloatLess(x, ToFloat(Num(10^3)))
           THEN FormatFixed1(over(10^3)) \o <<"k">>
           ELSE StrBits(RoundExact(x.m, x.e))

\* pct_str with a plus sign for an increase only: "0%" carries no sign
pct_str_plus_if_positive(vol5m, prev_vol) ==
  LET p == increase_pct(vol5m, prev_vol)
      text == IF p.k = "big" THEN p.v ELSE StrInt(p.v)
      sign == IF Head(text) \notin {"-", "0"} THEN <<"+">> ELSE <<>>
  IN  IF p.k \notin {"num", "big"} THEN <<>>
      ELSE <<" ", "(">> \o sign \o text \o <<"%", ")">>

\* lines 188-193: pct_str, for a percentage round() yields; "" without one
pct_str(vol5m, prev_vol) ==
  LET p == increase_pct(vol5m, prev_vol)
      text == IF p.k = "big" THEN p.v ELSE StrInt(p.v)
      sign == IF Head(text) # "-" THEN <<"+">> ELSE <<>>
  IN  IF p.k \notin {"num", "big"} THEN <<>>
      ELSE <<" ", "(">> \o sign \o text \o <<"%", ")">>

\* line 198: the last line of msg, _escape_md2(f"5m Vol: ${vol_str}{pct_str}")
VolLabel == <<"5", "m", " ", "V", "o", "l", ":", " ", "$">>
msg_vol_line(vol_str, pct) == escape_md2(VolLabel \o vol_str \o pct)

\* line 207: note = f"5m Vol Spike ${vol_str}{pct_str}"
NoteLabel ==
  <<"5", "m", " ", "V", "o", "l", " ", "S", "p", "i", "k", "e", " ", "$">>
note(vol_str, pct) == NoteLabel \o vol_str \o pct

(* -------------------------------------------------- choice of the pair *)
\* the sort key: p.get("liquidity", {}).get("usd") or 0; nan is truthy and
\* stays nan, an absent value and 0 give 0
LiqKey(p) == IF p.liq.k = "missing" THEN Num(0) ELSE p.liq

\* x < y on the keys, which are floats: the numeric order, and false
\* whenever one of them is nan. Every finite key (v, v + 0.5, v * 10^6) is
\* exact in binary64, so the order of the floats is the order of the values
KeyLess(x, y) ==
  IF ~Finite(x) \/ ~Finite(y) THEN Finite(x) /\ y.k = "inf"
  ELSE IF x.k = "mega" /\ y.k = "mega" THEN x.v < y.v
  ELSE IF x.k = "mega"
  THEN x.v <= (IF y.k = "half" THEN y.v ELSE y.v - 1) \div 10^6
  ELSE IF y.k = "mega" THEN x.v \div 10^6 < y.v
  ELSE x.v < y.v \/ (x.v = y.v /\ x.k = "num" /\ y.k = "half")

Reverse(s) == [i \in 1..Len(s) |-> s[Len(s) + 1 - i]]

\* count_run of list.sort: the length of the run the list begins with, and
\* whether it is strictly descending
CountRun(s) ==
  IF Len(s) < 2 THEN [n |-> Len(s), descending |-> FALSE]
  ELSE LET d == KeyLess(LiqKey(s[2]), LiqKey(s[1]))
           goes(i) == KeyLess(LiqKey(s[i]), LiqKey(s[i - 1])) = d
           n == CHOOSE k \in 2..Len(s) :
                  /\ \A i \in 3..k : goes(i)
                  /\ k < Len(s) => ~goes(k + 1)
       IN  [n |-> n, descending |-> d]

\* the binary search of binarysort: where the pivot goes within s[l..r-1]
RECURSIVE BinarySearch(_, _, _, _)
BinarySearch(s, pivot, l, r) ==
  IF l >= r THEN l
  ELSE LET p == l + ((r - l) \div 2)
       IN  IF KeyLess(LiqKey(pivot), LiqKey(s[p]))
           THEN BinarySearch(s, pivot, l, p)
           ELSE BinarySearch(s, pivot, p + 1, r)

\* binarysort: s[1..start-1] is sorted; insert s[start], s[start+1], ...
RECURSIVE BinarySort(_, _)
BinarySort(s, start) ==
  IF start > Len(s) THEN s
  ELSE LET l == BinarySearch(s, s[start], 1, start)
       IN  BinarySort(SubSeq(s, 1, l - 1) \o <<s[start]>>
                        \o SubSeq(s, l, start - 1)
                        \o SubSeq(s, start + 1, Len(s)),
                      start + 1)

\* list.sort on fewer than 64 elements: the leading run, reversed when it is
\* descending, then binary insertion of the rest
ListSort(s) ==
  LET run == CountRun(s)
      t == IF run.descending
           THEN Reverse(SubSeq(s, 1, run.n)) \o SubSeq(s, run.n + 1, Len(s))
           ELSE s
  IN  BinarySort(t, run.n + 1)

\* sorted(pairs, key=..., reverse=True): the list is reversed, sorted in
\* ascending order, and reversed again
sorted_by_liquidity(ps) == Reverse(ListSort(Reverse(ps)))

\* fetch_pair with an except branch that answers a pair of unknown volume
fetch_pair_default(resp) ==
  IF resp.kind # "ok" \/ resp.pairs = <<>> THEN Pair(LiqMissing, "ok", NaN)
  ELSE sorted_by_liquidity(resp.pairs)[1]

\* fetch_pair(address): the selected pair, or NoPair for None; never raises
fetch_pair(resp) ==
  IF resp.kind # "ok" \/ resp.pairs = <<>> THEN NoPair
  ELSE sorted_by_liquidity(resp.pairs)[1]

(* ------------------------------------------------------------------ sinks *)
\* what the Telegram endpoint does with the POST
TgResponses == {"200", "non200", "exception"}
\* send_telegram: False without token or chat id, else status_code == 200
send_telegram(configured, r) == configured /\ r = "200"

\* what the dashboard endpoint does with the POST
HistResponses == {"200_ok", "200_not_ok", "200_bad_body", "non200", "exception"}
\* add_history: False without DASHBOARD_URL, else 200 and {"ok": true}
add_history(configured, r) == configured /\ r = "200_ok"

(* ------------------------------------------------------------------ state *)
VARIABLES
  config,          \* current contents of config.json (edited from outside)
  TELEGRAM_SET,    \* TELEGRAM_BOT_TOKEN and TELEGRAM_CHAT_ID are both set
  DASHBOARD_SET,   \* DASHBOARD_URL is set
  pc,              \* position of the process in warm_up() / main()
  addresses,       \* the list being iterated
  idx,             \* position of the for loop in addresses (1-based)
  PREV_VOL_5M,     \* the module-level dict; None stands for "no key"
  cycle,           \* number of the current cycle of the while loop
  now,             \* wall clock in seconds, advanced by the sleeps only
  sent,            \* the send_telegram calls made: [address, at]
  hist,            \* the add_history calls made: [address, at]
  last,            \* locals of the most recent loop iteration and what it did
  written,         \* addresses whose PREV_VOL_5M entry was set during this pass
  call             \* a function applied on its own: [fn, arg, done, out]

vars == <<config, TELEGRAM_SET, DASHBOARD_SET, pc, addresses, idx, PREV_VOL_5M,
          cycle, now, sent, hist, last, written, call>>
env == <<TELEGRAM_SET, DASHBOARD_SET>>

NoKeys == [a \in AddrUniverse |-> None]
Keys(d) == {a \in AddrUniverse : d[a] # None}

\* The locals of one loop iteration. failed: the request did not yield a
\* pair list; m5: what the selected pair carries under volume.m5; fresh:
\* prev_vol was read from an entry written earlier in the same pass.
NoIter ==
  [op |-> "none", address |-> "", failed |-> FALSE, m5 |-> "n/a", vol5m |-> None,
   prev_vol |-> None, fresh |-> FALSE, outcome |-> "none", tg |-> "none",
   hs |-> "none"]
Fetched(op, address, resp, pair) ==
  [NoIter EXCEPT !.op = op, !.address = address, !.failed = (resp.kind # "ok"),
                 !.m5 = IF Falsy(pair) THEN "n/a" ELSE pair.m5.k]

\* no function is being applied on its own
NoCall == [fn |-> "none", arg |-> <<>>, done |-> FALSE, out |-> <<>>]

Init ==
  /\ config \in Configs
  /\ TELEGRAM_SET \in BOOLEAN
  /\ DASHBOARD_SET \in BOOLEAN
  /\ pc = "warm_load"
  /\ addresses = <<>>
  /\ idx = 1
  /\ PREV_VOL_5M = NoKeys
  /\ cycle = 0
  /\ now = 0
  /\ sent = <<>>
  /\ hist = <<>>
  /\ last = NoIter
  /\ written = {}
  /\ call = NoCall

Stopped == pc = "crashed" \/ (pc = "main_load" /\ cycle >= MaxCycles)

\* config.json is edited by somebody else, at any moment
EditConfig ==
  /\ ~Stopped
  /\ config' \in Configs \ {config}
  /\ UNCHANGED <<call, env, pc, addresses, idx, PREV_VOL_5M, cycle, now, sent, hist,
                 last, written>>

\* the statement with a list that is read once and then kept
LoadInto_cached(loop) ==
  LET r == load_tokens(config) IN
  /\ \/ /\ IF addresses # <<>>
           THEN /\ pc' = loop
                /\ last' = NoIter
                /\ UNCHANGED addresses
           ELSE IF r.raised
           THEN /\ pc' = "crashed"
                /\ last' = [NoIter EXCEPT !.op = "load", !.outcome = "raise"]
                /\ UNCHANGED addresses
           ELSE /\ pc' = loop
                /\ last' = NoIter
                /\ addresses' = WatchList(r.value)
        /\ UNCHANGED config
     \/ /\ addresses = <<>>
        /\ config.kind # "missing"
        /\ config' = CfgMissing
        /\ pc' = "crashed"
        /\ last' = [NoIter EXCEPT !.op = "load", !.outcome = "raise"]
        /\ UNCHANGED addresses
  /\ idx' = 1

\* the addresses = [...] statement of warm_up / main: an exception of
\* load_tokens is caught nowhere and ends the process. Between exists()
\* (line 43) and read_text() (line 45) the file may be removed: read_text
\* raises FileNotFoundError
LoadInto(loop) ==
  LET r == load_tokens(config) IN
  /\ \/ /\ IF r.raised
           THEN /\ pc' = "crashed"
                /\ last' = [NoIter EXCEPT !.op = "load", !.outcome = "raise"]
                /\ UNCHANGED addresses
           ELSE /\ pc' = loop
                /\ last' = NoIter
                /\ addresses' = WatchList(r.value)
        /\ UNCHANGED config
     \/ /\ config.kind # "missing"
        /\ config' = CfgMissing
        /\ pc' = "crashed"
        /\ last' = [NoIter EXCEPT !.op = "load", !.outcome = "raise"]
        /\ UNCHANGED addresses
  /\ idx' = 1

\* warm_up, line 146
WarmUpLoad ==
  /\ pc = "warm_load"
  /\ LoadInto("warm_loop")
  /\ UNCHANGED <<call, env, PREV_VOL_5M, cycle, now, sent, hist, written>>

\* `continue`: on to the next address, nothing stored, nothing sent
Continue(it) ==
  /\ last' = it
  /\ idx' = idx + 1
  /\ UNCHANGED <<pc, PREV_VOL_5M, written, sent, hist>>

\* an exception leaves the for loop, main() and the process
Raise(it) ==
  /\ last' = it
  /\ pc' = "crashed"
  /\ UNCHANGED <<idx, PREV_VOL_5M, written, sent, hist>>

\* Record that merges: the entry keeps the greater of the old and new volume
Record_max(address, vol5m) ==
  LET old == PREV_VOL_5M[address]
      kept == IF old.k = "num" /\ vol5m.k = "num" /\ old.v > vol5m.v
              THEN old ELSE vol5m
  IN  /\ PREV_VOL_5M' = [PREV_VOL_5M EXCEPT ![address] = kept]
      /\ written' = written \cup {address}

\* Record into one slot shared by the addresses seen so far
Record_shared(address, vol5m) ==
  /\ PREV_VOL_5M' = [a \in AddrUniverse |->
                       IF a = address \/ PREV_VOL_5M[a] # None
                       THEN vol5m ELSE PREV_VOL_5M[a]]
  /\ written' = written \cup {address}

\* PREV_VOL_5M[address] = vol5m
Record(address, vol5m) ==
  /\ PREV_VOL_5M' = [PREV_VOL_5M EXCEPT ![address] = vol5m]
  /\ written' = written \cup {address}

\* a warm-up iteration that alerts on a volume at or above the threshold
WarmUpStep_alerting ==
  /\ pc = "warm_loop"
  /\ idx <= Len(addresses)
  /\ \E resp \in Responses :
       LET address == addresses[idx]
           pair == fetch_pair(resp)
           g == get_volume5m_and_symbol(pair)
           it == Fetched("warm", address, resp, pair)
       IN  IF Falsy(pair) THEN Continue([it EXCEPT !.outcome = "miss"])
           ELSE IF g.raised THEN Raise([it EXCEPT !.outcome = "raise"])
           ELSE IF g.v5 = None THEN Continue([it EXCEPT !.outcome = "absent"])
           ELSE IF PrintRaises(pair)
           THEN /\ last' = [it EXCEPT !.vol5m = g.v5, !.outcome = "print_raise"]
                /\ Record(address, g.v5)
                /\ pc' = "crashed"
                /\ UNCHANGED <<idx, sent, hist>>
           ELSE /\ last' = [it EXCEPT !.vol5m = g.v5, !.outcome = "recorded"]
                /\ Record(address, g.v5)
                /\ idx' = idx + 1
                /\ UNCHANGED pc
                /\ IF BelowOrAbsent(g.v5) THEN UNCHANGED <<sent, hist>>
                   ELSE /\ sent' = Append(sent, [address |-> address, at |-> now])
                        /\ hist' = Append(hist, [address |-> address, at |-> now])
  /\ UNCHANGED <<call, config, env, addresses, cycle, now>>

\* warm_up, lines 147-154: one iteration of the for loop; the print of line
\* 154 comes after the assignment of line 153
WarmUpStep ==
  /\ pc = "warm_loop"
  /\ idx <= Len(addresses)
  /\ \E resp \in Responses :
       LET address == addresses[idx]
           pair == fetch_pair(resp)
           g == get_volume5m_and_symbol(pair)
           it == Fetched("warm", address, resp, pair)
       IN  IF Falsy(pair) THEN Continue([it EXCEPT !.outcome = "miss"])
           ELSE IF g.raised THEN Raise([it EXCEPT !.outcome = "raise"])
           ELSE IF g.v5 = None THEN Continue([it EXCEPT !.outcome = "absent"])
           ELSE IF PrintRaises(pair)
           THEN /\ last' = [it EXCEPT !.vol5m = g.v5, !.outcome = "print_raise"]
                /\ Record(address, g.v5)
                /\ pc' = "crashed"
                /\ UNCHANGED <<idx, sent, hist>>
           ELSE /\ last' = [it EXCEPT !.vol5m = g.v5, !.outcome = "recorded"]
                /\ Record(address, g.v5)
                /\ idx' = idx + 1
                /\ UNCHANGED <<pc, sent, hist>>
  /\ UNCHANGED <<call, config, env, addresses, cycle, now>>

\* warm_up, line 156: time.sleep(INTERVAL_SEC), then main's while loop
WarmUpSleep ==
  /\ pc = "warm_loop"
  /\ idx > Len(addresses)
  /\ now' = now + INTERVAL_SEC
  /\ pc' = "main_load"
  /\ written' = {}
  /\ UNCHANGED <<call, config, env, addresses, idx, PREV_VOL_5M, cycle, sent, hist, last>>

\* main, line 174
MainLoad ==
  /\ pc = "main_load"
  /\ cycle < MaxCycles
  /\ cycle' = cycle + 1
  /\ LoadInto("main_loop")
  /\ UNCHANGED <<call, env, PREV_VOL_5M, now, sent, hist, written>>

\* the telegram / history outcome noted for an iteration
TgOutcome(r) == IF ~TELEGRAM_SET THEN "disabled"
                ELSE IF send_telegram(TELEGRAM_SET, r) THEN "sent" ELSE "failed"
HistOutcome(r) == IF ~DASHBOARD_SET THEN "disabled"
                  ELSE IF add_history(DASHBOARD_SET, r) THEN "ok" ELSE "failed"

\* Dispatch behind a cooldown: nothing is sent within COOLDOWN_SECONDS of the
\* previous alert for the address
Dispatch_cooldown(it, tr, hr) ==
  IF \E i \in DOMAIN sent :
       sent[i].address = it.address /\ now - sent[i].at < COOLDOWN_SECONDS
  THEN /\ last' = [it EXCEPT !.outcome = "suppressed"]
       /\ idx' = idx + 1
       /\ UNCHANGED <<pc, sent, hist>>
  ELSE /\ last' = [it EXCEPT !.outcome = "alert", !.tg = TgOutcome(tr),
                             !.hs = HistOutcome(hr)]
       /\ sent' = Append(sent, [address |-> it.address, at |-> now])
       /\ hist' = Append(hist, [address |-> it.address, at |-> now])
       /\ idx' = idx + 1
       /\ UNCHANGED pc

\* Dispatch that lets a failed delivery escape as an exception
Dispatch_raising(it, tr, hr) ==
  /\ last' = [it EXCEPT !.outcome = "alert", !.tg = TgOutcome(tr),
                        !.hs = HistOutcome(hr)]
  /\ sent' = Append(sent, [address |-> it.address, at |-> now])
  /\ hist' = Append(hist, [address |-> it.address, at |-> now])
  /\ IF send_telegram(TELEGRAM_SET, tr) /\ add_history(DASHBOARD_SET, hr)
     THEN idx' = idx + 1 /\ UNCHANGED pc
     ELSE pc' = "crashed" /\ UNCHANGED idx

\* main, lines 185-208 once the percentage is computed: send_telegram, then
\* add_history whatever send_telegram returned; both swallow their exceptions
Dispatch(it, tr, hr) ==
  /\ last' = [it EXCEPT !.outcome = "alert", !.tg = TgOutcome(tr),
                        !.hs = HistOutcome(hr)]
  /\ sent' = Append(sent, [address |-> it.address, at |-> now])
  /\ hist' = Append(hist, [address |-> it.address, at |-> now])
  /\ idx' = idx + 1
  /\ UNCHANGED pc

\* main, lines 200-204: send_telegram was called, then float() of the price
\* raises OverflowError before add_history is reached
PriceRaise(it, tr) ==
  /\ last' = [it EXCEPT !.outcome = "price_raise", !.tg = TgOutcome(tr)]
  /\ sent' = Append(sent, [address |-> it.address, at |-> now])
  /\ pc' = "crashed"
  /\ UNCHANGED <<idx, hist>>

\* main, lines 175-208: one iteration of the for loop
MainStep ==
  /\ pc = "main_loop"
  /\ idx <= Len(addresses)
  /\ \E resp \in Responses :
       LET address == addresses[idx]
           pair == fetch_pair(resp)
           g == get_volume5m_and_symbol(pair)
           vol5m == g.v5
           prev_vol == PREV_VOL_5M[address]
           got == Fetched("main", address, resp, pair)
           it == [got EXCEPT !.vol5m = vol5m, !.prev_vol = prev_vol,
                             !.fresh = (address \in written)]
       IN  IF Falsy(pair) THEN Continue([got EXCEPT !.outcome = "miss"])
           ELSE IF g.raised THEN Raise([got EXCEPT !.outcome = "raise"])
           ELSE IF vol5m = None THEN Continue([it EXCEPT !.outcome = "absent"])
           ELSE IF BelowOrAbsent(vol5m)
           THEN /\ last' = [it EXCEPT !.outcome = "below"]
                /\ Record(address, vol5m)
                /\ idx' = idx + 1
                /\ UNCHANGED <<pc, sent, hist>>
           ELSE IF PrintRaises(pair)
           THEN /\ last' = [it EXCEPT !.outcome = "print_raise"]
                /\ Record(address, vol5m)
                /\ pc' = "crashed"
                /\ UNCHANGED <<idx, sent, hist>>
           ELSE IF RoundRaises(vol5m, prev_vol)
           THEN /\ last' = [it EXCEPT !.outcome = "pct_raise"]
                /\ Record(address, vol5m)
                /\ pc' = "crashed"
                /\ UNCHANGED <<idx, sent, hist>>
           ELSE IF PriceRaises(pair)
           THEN /\ Record(address, vol5m)
                /\ \E tr \in TgResponses : PriceRaise(it, tr)
           ELSE /\ Record(address, vol5m)
                /\ \E tr \in TgResponses, hr \in HistResponses : Dispatch(it, tr, hr)
  /\ UNCHANGED <<call, config, env, addresses, cycle, now>>

\* main, line 209: time.sleep(INTERVAL_SEC), which returns late seconds late
MainSleepFor(late) ==
  /\ pc = "main_loop"
  /\ idx > Len(addresses)
  /\ now' = now + INTERVAL_SEC + late
  /\ pc' = "main_load"
  /\ written' = {}
  /\ UNCHANGED <<call, config, env, addresses, idx, PREV_VOL_5M, cycle, sent, hist, last>>

\* the sleep that returns on time
MainSleep == MainSleepFor(0)

\* the sleep that returns on time or late
MainSleepLate == \E late \in Lateness : MainSleepFor(late)

Next ==
  \/ EditConfig
  \/ WarmUpLoad
  \/ WarmUpStep
  \/ WarmUpSleep
  \/ MainLoad
  \/ MainStep
  \/ MainSleep

Spec == Init /\ [][Next]_vars

\* The same program on a clock that may run late: the sleeps of the main loop
\* return on time or late, so that two passes may lie further apart than the
\* cooldown window. Nothing is sent before the sleep of warm_up, whose length
\* changes no distance between two notifications. The process is started
\* with both sinks configured.
TimedInit == Init /\ TELEGRAM_SET /\ DASHBOARD_SET

TimedNext ==
  \/ EditConfig
  \/ WarmUpLoad
  \/ WarmUpStep
  \/ WarmUpSleep
  \/ MainLoad
  \/ MainStep
  \/ MainSleepLate

TimedSpec == TimedInit /\ [][TimedNext]_vars

TypeOK ==
  /\ config \in Configs
  /\ pc \in {"warm_load", "warm_loop", "main_load", "main_loop", "crashed"}
  /\ \A a \in AddrUniverse : PREV_VOL_5M[a] \in FloatVals
  /\ cycle \in 0..MaxCycles
  /\ Len(hist) <= Len(sent)
  /\ Len(sent) <= Len(hist) + 1

(* ------------------------------------------ functions applied on their own *)
\* The text of an alert, the formatting of a volume and the choice of a pair
\* are functions of their arguments alone. Here each is applied once to an
\* argument drawn from a set that holds the decimal ties and the values next
\* to every unit boundary.
mainvars == <<config, TELEGRAM_SET, DASHBOARD_SET, pc, addresses, idx,
              PREV_VOL_5M, cycle, now, sent, hist, last, written>>

\* vol5m at line 185: not below the threshold (nan is not below it)
PctVols ==
  {NaN, Inf, Half(50000), Mega(1)} \cup
  {Num(n) : n \in {50000, 50021, 50750, 60000, 75000, 100000, 101500, 150000}}
\* prev_vol at line 188
PctPrevs ==
  {None, NaN, Inf, Half(-1), Half(0), Half(3), Mega(1), Mega(1000)} \cup
  {Num(n) : n \in {-1, 0, 1, 3, 40, 40000, 50000, 60000, 75000, 100000, 200000}}

\* arguments of format_vol: around every unit boundary, decimal ties, halves
FormatVolInputs ==
  {None, NaN, Inf} \cup
  {Mega(n) : n \in {-5, 0, 5, 999, 1050, 2300, 999960}} \cup
  {Half(n) : n \in {-1000, -3, -2, -1, 0, 1, 998, 999, 1000, 1949}} \cup
  {Num(n) : n \in {-5, 0, 1, 999, 1000, 1050, 1150, 1250, 1949, 1950, 12345,
                   50000, 999949, 999950, 999951, 999999, 1000000, 1050000,
                   1500000, 999949999, 999950000, 999950001, 999999999,
                   1000000000, 2000000000}}

\* answers of the provider with up to MaxPairs pairs; the pair at position i
\* carries the volume i, so equal liquidities do not make equal pairs
\* liquidities: those of Liqs, zero, and floats that are not small integers
PairLiqs == Liqs \cup {Num(0), Half(1), Inf}
PairLists ==
  UNION {{[i \in 1..n |-> Pair(l[i], "ok", Num(i))] : l \in [1..n -> PairLiqs]}
           : n \in 1..MaxPairs}
FetchInputs == {Fail(kd) : kd \in FailKinds} \cup {Ok(ps) : ps \in PairLists}

Call(f, a) == [fn |-> f, arg |-> a, done |-> FALSE, out |-> <<>>]
FnCalls ==
  {Call("pct", [vol5m |-> v, prev_vol |-> p]) : v \in PctVols, p \in PctPrevs}
    \cup {Call("format_vol", [value |-> x]) : x \in FormatVolInputs}
    \cup {Call("fetch_pair", resp) : resp \in FetchInputs}

FnInit ==
  /\ config = CfgMissing
  /\ TELEGRAM_SET = FALSE
  /\ DASHBOARD_SET = FALSE
  /\ pc = "apply"
  /\ addresses = <<>>
  /\ idx = 1
  /\ PREV_VOL_5M = NoKeys
  /\ cycle = 0
  /\ now = 0
  /\ sent = <<>>
  /\ hist = <<>>
  /\ last = NoIter
  /\ written = {}
  /\ call \in FnCalls

\* main, lines 187-207: vol_str, pct_str, the volume line of msg, and note;
\* round() raises on a nan or infinite quotient before any of the text is used
ApplyPct ==
  /\ call.fn = "pct" /\ ~call.done
  /\ LET vol5m == call.arg.vol5m
         prev_vol == call.arg.prev_vol
         vol_str == format_vol(vol5m)
         pct == pct_str(vol5m, prev_vol)
     IN  call' =
           [call EXCEPT !.done = TRUE,
              !.out = IF RoundRaises(vol5m, prev_vol)
                      THEN [raised |-> TRUE, pct_str |-> <<>>, msg |-> <<>>,
                            note |-> <<>>]
                      ELSE [raised |-> FALSE, pct_str |-> pct,
                            msg |-> msg_vol_line(vol_str, pct),
                            note |-> note(vol_str, pct)]]
  /\ UNCHANGED mainvars

\* format_vol(value)
ApplyFormatVol ==
  /\ call.fn = "format_vol" /\ ~call.done
  /\ call' = [call EXCEPT !.done = TRUE, !.out = format_vol(call.arg.value)]
  /\ UNCHANGED mainvars

\* fetch_pair(address), given what the provider answers
ApplyFetchPair ==
  /\ call.fn = "fetch_pair" /\ ~call.done
  /\ call' = [call EXCEPT !.done = TRUE, !.out = fetch_pair(call.arg)]
  /\ UNCHANGED mainvars

FnNext ==
  \/ ApplyPct
  \/ ApplyFormatVol
  \/ ApplyFetchPair

FnSpec == FnInit /\ [][FnNext]_vars

(* ----------------------------------------------------------------- claims *)
\* a step that is one iteration of the for loop of warm_up or of main
\* (EditConfig is the only other step enabled there, and it changes config)
Iteration ==
  /\ pc \in {"warm_loop", "main_loop"}
  /\ idx <= Len(addresses)
  /\ config' = config
MainIteration == Iteration /\ pc = "main_loop"

\* "the 5-minute volume is defined and is >= ALERT_VOLUME_THRESHOLD"
AtLeastThreshold(x) ==
  x \notin {None, NaN} /\ ~ValLess(x, Num(ALERT_VOLUME_THRESHOLD))

\* the outcomes of an iteration of main that went past the test of line 183
PastThreshold == {"print_raise", "pct_raise", "price_raise", "alert"}

\* C1: the previous volume an iteration of the main loop reads for its address
\* was recorded by an earlier pass, never during the current cycle.
C1_PrevFromEarlierPass == last.op = "main" => ~last.fresh

\* C2: a main-loop observation reaches the spike branch (line 185) if and only
\* if its 5-minute volume is defined and is >= ALERT_VOLUME_THRESHOLD.
C2_SpikeIffAtLeastThreshold ==
  (last.op = "main" /\ last.outcome \in {"absent", "below"} \cup PastThreshold)
    => ((last.outcome \in PastThreshold) <=> AtLeastThreshold(last.vol5m))

\* C3: an iteration of the main loop calls send_telegram exactly once, for its
\* address, when the observation qualifies (volume defined and >= threshold),
\* and calls neither send_telegram nor add_history when it does not.
C3_OneSendPerQualifying ==
  [][MainIteration =>
       IF AtLeastThreshold(last'.vol5m)
       THEN sent' = Append(sent, [address |-> last'.address, at |-> now])
       ELSE sent' = sent /\ hist' = hist]_vars

\* C4: whenever send_telegram has been called in an iteration, with whatever
\* result (delivered, failed, disabled), add_history is called for the same
\* address in the same iteration.
C4_HistoryAfterEveryNotification ==
  [][(MainIteration /\ last'.tg \in {"sent", "failed", "disabled"}) =>
       hist' = Append(hist, [address |-> last'.address, at |-> now])]_vars

PositivePrev(p) == p = Inf \/ (p.k = "num" /\ p.v > 0)

C6_FailedFetchIsSkipped ==
  [][(Iteration /\ last'.failed) =>
       /\ PREV_VOL_5M' = PREV_VOL_5M
       /\ sent' = sent
       /\ hist' = hist
       /\ pc' = pc
       /\ idx' = idx + 1]_vars
\* a failed request in the main loop for an address that has an entry
C6_Witness ==
  /\ last.op = "main"
  /\ last.failed
  /\ last.outcome = "miss"
  /\ PREV_VOL_5M[last.address] # None
  /\ pc = "main_loop"

\* C7: an iteration whose pair carries no usable 5-minute volume (missing,
\* unparseable, or too large for a float) leaves PREV_VOL_5M as it was for
\* every address and calls no sink.
C7_AbsentVolumeMutatesNothing ==
  [][(Iteration /\ last'.m5 \in {"missing", "unparseable", "huge"}) =>
       /\ PREV_VOL_5M' = PREV_VOL_5M
       /\ sent' = sent
       /\ hist' = hist]_vars
\* an unparseable volume in the main loop for an address that has an entry
C7_Witness ==
  /\ last.op = "main"
  /\ last.m5 = "unparseable"
  /\ last.outcome = "absent"
  /\ PREV_VOL_5M[last.address] # None

\* C8: no iteration of the main loop ends the process.
C8_MainLoopNeverAborts == ~(pc = "crashed" /\ last.op = "main")

\* C9: load_tokens never fails its caller.
C9_LoadTokensNeverFails == ~(pc = "crashed" /\ last.op = "load")

\* C10: an iteration in which send_telegram or add_history failed (transport,
\* status, negative acknowledgement, missing configuration) does not raise:
\* the loop stays in the same cycle and moves to the next address.
C10_SinkFailureNotRaised ==
  [][(MainIteration /\ last'.outcome = "alert"
        /\ (last'.tg \in {"failed", "disabled"} \/ last'.hs \in {"failed", "disabled"})) =>
       /\ pc' = "main_loop"
       /\ idx' = idx + 1
       /\ addresses' = addresses
       /\ cycle' = cycle]_vars
\* the second address of a cycle has been evaluated after the first one was
\* alerted on with both sinks failing
C10_Witness ==
  /\ ~TELEGRAM_SET
  /\ ~DASHBOARD_SET
  /\ pc = "main_loop"
  /\ Len(addresses) = 2
  /\ idx = 3
  /\ last.op = "main"
  /\ last.address = addresses[2]
  /\ last.outcome = "below"
  /\ sent # <<>>
  /\ sent[Len(sent)] = [address |-> addresses[1], at |-> now]

WarmUpIteration == Iteration /\ pc = "warm_loop"

\* C11: the warm-up pass only fills PREV_VOL_5M. No iteration of warm_up calls
\* send_telegram or add_history, whatever volume it observes (also one at or
\* above the threshold), so no call has been made when the main loop starts;
\* and an iteration whose fetch yields a defined volume leaves exactly that
\* volume under the address in PREV_VOL_5M.
C11_WarmUpOnlyRecords ==
  [][/\ WarmUpIteration =>
          /\ sent' = sent /\ hist' = hist
          /\ last'.op = "warm" /\ last'.address = addresses[idx]
          /\ last'.vol5m # None =>
               PREV_VOL_5M'[last'.address] = last'.vol5m
          /\ last'.vol5m = None => PREV_VOL_5M' = PREV_VOL_5M
     /\ (pc' \in {"warm_load", "warm_loop"} \/ (pc' = "main_load" /\ cycle' = 0))
          => sent' = <<>> /\ hist' = <<>>]_vars
C11_Witness ==
  /\ pc = "main_load" /\ cycle = 0
  /\ last.op = "warm" /\ last.outcome = "recorded"
  /\ AtLeastThreshold(last.vol5m)
  /\ PREV_VOL_5M[last.address] = last.vol5m
  /\ sent = <<>> /\ hist = <<>>

TooShort(a) == Len(a) < MinAddressLen

\* C12: an address shorter than 20 characters is excluded from monitoring. In
\* every reachable state no such address is in the list being iterated or was
\* the address of the latest fetch, none is a key of PREV_VOL_5M, and no
\* send_telegram or add_history call was made for one.
C12_ShortAddressExcluded ==
  /\ \A i \in DOMAIN addresses : ~TooShort(addresses[i])
  /\ last.op \in {"warm", "main"} => ~TooShort(last.address)
  /\ \A a \in Keys(PREV_VOL_5M) : ~TooShort(a)
  /\ \A i \in DOMAIN sent : ~TooShort(sent[i].address)
  /\ \A i \in DOMAIN hist : ~TooShort(hist[i].address)
C12_Witness ==
  /\ config = Cfg(<<Str(AddrShort), Obj(""), Str(AddrB)>>)
  /\ load_tokens(config).value = <<AddrShort, AddrB>>
  /\ addresses = <<AddrB>>
  /\ pc = "main_loop" /\ idx > Len(addresses)
  /\ last.op = "main" /\ last.outcome = "alert"
  /\ Keys(PREV_VOL_5M) = {AddrB}

\* the text Telegram shows for a MarkdownV2 string: a backslash is dropped and
\* the character after it is shown as it is
RECURSIVE md2_rendered(_)
md2_rendered(s) ==
  IF s = <<>> THEN <<>>
  ELSE IF Head(s) = "\\" /\ Len(s) >= 2
       THEN <<s[2]>> \o md2_rendered(Tail(Tail(s)))
       ELSE <<Head(s)>> \o md2_rendered(Tail(s))

\* a finite value of the model is above zero, is below zero
IsPositive(x) == IF x.k = "half" THEN x.v >= 0 ELSE x.v > 0
IsNegative(x) == x.v < 0

\* twice a finite value of the model, an integer
Twice(x) ==
  IF x.k = "half" THEN 2 * x.v + 1
  ELSE IF x.k = "mega" THEN 2 * 10^6 * x.v
  ELSE 2 * x.v

\* n is an integer nearest to ((cur / prev) - 1) * 100, for prev > 0 (cur and
\* prev in the same scale)
NearestPct(n, cur, prev) ==
  LET d == (n + 100) * prev - cur * 100
  IN  2 * (IF d < 0 THEN -d ELSE d) <= prev

\* "(+n%)" / "(-n%)" after a blank: the sign is always written
SignedPct(n) ==
  <<" ", "(", IF n >= 0 THEN "+" ELSE "-">>
    \o StrNat(IF n < 0 THEN -n ELSE n) \o <<"%", ")">>

\* C13: for an observation at or above the threshold the percentage is in the
\* alert message and in the history note exactly when the previous volume
\* exists and is positive (no text is built when round() raises on an
\* infinite quotient); it is then the rounded value of
\* ((current / previous) - 1) * 100 written with its sign, '+' for >= 0 and '-'
\* for a negative one (previous 100, current 300: '+200%'); the message, as
\* Telegram shows it, and the note end in the same volume and percentage text.
C13_PercentageText ==
  /\ pct_str(Num(300), Num(100)) = <<" ", "(", "+", "2", "0", "0", "%", ")">>
  /\ (call.fn = "pct" /\ call.done /\ AtLeastThreshold(call.arg.vol5m)) =>
       LET cur == call.arg.vol5m
           prev == call.arg.prev_vol
           positive == prev = Inf \/ (Finite(prev) /\ IsPositive(prev))
           shown == call.out.pct_str
       IN  /\ call.out.raised <=> (cur = Inf /\ positive)
           /\ ~call.out.raised =>
                /\ (shown # <<>>) <=> positive
                /\ positive =>
                     \E n \in {increase_pct(cur, prev).v} :
                       /\ IF prev = Inf THEN n = -100
                          ELSE NearestPct(n, Twice(cur), Twice(prev))
                       /\ shown = SignedPct(n)
                /\ call.out.note = NoteLabel \o format_vol(cur) \o shown
                /\ md2_rendered(call.out.msg) = VolLabel \o format_vol(cur) \o shown
C13_Witness ==
  /\ call.fn = "pct" /\ call.done
  /\ call.arg = [vol5m |-> Num(150000), prev_vol |-> Num(200000)]
  /\ call.out.pct_str = <<" ", "(", "-", "2", "5", "%", ")">>
  /\ call.out.note = NoteLabel \o <<"1", "5", "0", ".", "0", "k">> \o call.out.pct_str
  /\ call.out.msg # VolLabel \o <<"1", "5", "0", ".", "0", "k">> \o call.out.pct_str

\* the unit suffix of a rendering, "" when it has none
SuffixOf(out) ==
  IF out[Len(out)] \in {"k", "m", "b"} THEN out[Len(out)] ELSE ""
\* the number of digits before the decimal point (all digits without suffix)
IntegerDigits(out) == IF SuffixOf(out) = "" THEN Len(out) ELSE Len(out) - 3

\* out is a quotient with one decimal, followed by the suffix: t tenths, a
\* tenth nearest to v (v and tenth in the same scale)
OneDecimal(out, v, tenth, suffix) ==
  \E t \in 0..10000 :
    /\ out = Fixed1(t) \o <<suffix>>
    /\ 2 * (IF v - t * tenth < 0 THEN t * tenth - v ELSE v - t * tenth) <= tenth

\* the unit-suffix scheme, for the rendering out of the finite float x
UnitSuffixScheme(x, out) ==
  IF x = None \/ x.k = "nan" \/ IsNegative(x) THEN out = <<"0">>
  ELSE IF x.k = "mega"
  THEN IF x.v >= 10^3 THEN OneDecimal(out, x.v, 100, "b")
       ELSE IF x.v >= 1 THEN OneDecimal(out, 10 * x.v, 1, "m")
       ELSE out = <<"0">>
  ELSE IF x.k = "half"
  THEN IF x.v >= 10^6 THEN OneDecimal(out, 2 * x.v + 1, 2 * 10^5, "m")
       ELSE IF x.v >= 10^3 THEN OneDecimal(out, 2 * x.v + 1, 2 * 10^2, "k")
       ELSE out \in {StrInt(x.v), StrInt(x.v + 1)}
  ELSE IF x.v >= 10^9 THEN OneDecimal(out, x.v, 10^8, "b")
  ELSE IF x.v >= 10^6 THEN OneDecimal(out, x.v, 10^5, "m")
  ELSE IF x.v >= 10^3 THEN OneDecimal(out, x.v, 10^2, "k")
  ELSE out = StrInt(x.v)

FormatVolExamples ==
  /\ format_vol(Num(1500000)) = <<"1", ".", "5", "m">>
  /\ format_vol(Num(999)) = <<"9", "9", "9">>
  /\ format_vol(Mega(2300)) = <<"2", ".", "3", "b">>

\* C14: format_vol follows the unit-suffix scheme ('b' from 1e9, 'm' from 1e6,
\* 'k' from 1e3, one decimal; a rounded integer below 1e3; '0' for a negative,
\* None or nan), 1,500,000 gives '1.5m', 999 gives '999', 2,300,000,000 gives
\* '2.3b', and the number rendered before a suffix is below 1000 wherever a
\* next unit exists.
C14_RenderedBelowThousand ==
  /\ FormatVolExamples
  /\ (call.fn = "format_vol" /\ call.done /\ call.arg.value # Inf) =>
       /\ UnitSuffixScheme(call.arg.value, call.out)
       /\ SuffixOf(call.out) # "b" => IntegerDigits(call.out) <= 3

\* C14, amended: the scheme and the examples as above, for finite values;
\* the unit is chosen before the value is rounded, so the number rendered
\* without a suffix or before 'k' or 'm' is at most 1000, and it is 1000
\* exactly for the inputs that round up to the next unit (999.5 gives '1000',
\* 999,951 gives '1000.0k', 999,999,999 gives '1000.0m'); infinity gives 'infb'.
C14_UnitChosenBeforeRounding ==
  /\ FormatVolExamples
  /\ format_vol(Half(999)) = <<"1", "0", "0", "0">>
  /\ format_vol(Num(999951)) = <<"1", "0", "0", "0", ".", "0", "k">>
  /\ format_vol(Num(999999999)) = <<"1", "0", "0", "0", ".", "0", "m">>
  /\ format_vol(Inf) = <<"i", "n", "f", "b">>
  /\ (call.fn = "format_vol" /\ call.done /\ call.arg.value # Inf) =>
       LET x == call.arg.value
           out == call.out
           nearUnit == \/ x = Half(999)
                       \/ x.k = "num" /\ x.v >= 999950 /\ x.v < 10^6
                       \/ x.k = "num" /\ x.v >= 999950000 /\ x.v < 10^9
       IN  /\ UnitSuffixScheme(x, out)
           /\ SuffixOf(out) # "b" =>
                /\ IntegerDigits(out) <= 4
                /\ IntegerDigits(out) = 4 <=>
                     out \in {<<"1", "0", "0", "0">>,
                              <<"1", "0", "0", "0", ".", "0", SuffixOf(out)>>}
                /\ IntegerDigits(out) = 4 <=> nearUnit
C14_Witness ==
  /\ call.fn = "format_vol" /\ call.done
  /\ call.arg.value = Num(999999)
  /\ call.out = <<"1", "0", "0", "0", ".", "0", "k">>

\* the USD liquidity a pair counts with: absent liquidity (or usd) is zero,
\* and so is one that is not a number
UsdLiquidity(p) == IF p.liq.k \in {"missing", "nan"} THEN Num(0) ELSE p.liq

\* C15: given several pairs, fetch_pair returns a pair of the greatest USD
\* liquidity, an absent liquidity counting as zero, and among the pairs tied
\* for the greatest liquidity the one that comes first in the provider's order.
C15_GreatestLiquidityFirstOfTies ==
  (call.fn = "fetch_pair" /\ call.done /\ call.arg.kind = "ok") =>
    LET ps == call.arg.pairs IN
    \E i \in DOMAIN ps :
      /\ call.out = ps[i]
      /\ \A j \in DOMAIN ps : ~ValLess(UsdLiquidity(ps[i]), UsdLiquidity(ps[j]))
      /\ \A j \in 1..(i - 1) : ValLess(UsdLiquidity(ps[j]), UsdLiquidity(ps[i]))

\* C16: the key set of PREV_VOL_5M only grows, an address no longer in the
\* watch-list keeps its entry, and right after an observation of a defined
\* volume v for address a, in warm_up or in main, below the threshold or not,
\* PREV_VOL_5M[a] is v: the entry is overwritten, not merged.
C16_KeysGrowAndLatestVolumeStored ==
  [][/\ Keys(PREV_VOL_5M) \subseteq Keys(PREV_VOL_5M')
     /\ Iteration =>
          /\ (last'.m5 \in {"num", "nan", "inf"} /\ last'.outcome # "raise")
               <=> last'.vol5m # None
          /\ last'.vol5m # None =>
               PREV_VOL_5M'[last'.address] = last'.vol5m]_vars
C16_Witness ==
  /\ pc = "main_loop" /\ addresses = <<AddrB>>
  /\ PREV_VOL_5M[AddrA] # None
  /\ last.op = "main" /\ last.address = AddrB /\ last.outcome = "below"
  /\ last.prev_vol = Num(ALERT_VOLUME_THRESHOLD)
  /\ PREV_VOL_5M[AddrB] = Num(ALERT_VOLUME_THRESHOLD - 1)

\* the addresses config.json lists when it is read
Listed(cfg) == {cfg.tokens[i].address : i \in DOMAIN cfg.tokens}
Range(q) == {q[i] : i \in DOMAIN q}

\* C17: the watch-list is read again at the start of every cycle and is not
\* cached. The list a cycle iterates holds exactly the addresses of at least
\* 20 characters that config.json lists when the cycle starts, so a removed
\* address is not fetched or alerted on and an added one is; a change of
\* config.json during the cycle leaves the list of that cycle as it is; every
\* fetch and every call of a sink is for the next address of that list, and a
\* cycle that reaches its sleep has gone through the whole list.
C17_WatchListReadEachCycle ==
  [][/\ (pc \in {"warm_load", "main_load"} /\ pc' \in {"warm_loop", "main_loop"})
          => Range(addresses') = {a \in Listed(config) : Len(a) >= MinAddressLen}
     /\ (pc \in {"warm_loop", "main_loop"} /\ pc' = pc)
          => addresses' = addresses
     /\ (pc = "main_loop" /\ pc' = "main_load")
          => addresses' = addresses /\ idx = Len(addresses) + 1
     /\ Iteration =>
          /\ last'.address = addresses[idx]
          /\ idx' \in {idx, idx + 1} /\ (idx' = idx => pc' = "crashed")
          /\ sent' # sent => sent' = Append(sent, [address |-> addresses[idx],
                                                    at |-> now])
          /\ hist' # hist => hist' = Append(hist, [address |-> addresses[idx],
                                                    at |-> now])]_vars
C17_Witness ==
  /\ cycle = 2 /\ pc = "main_loop" /\ idx = 2
  /\ addresses = <<AddrB>>
  /\ config = Cfg(<<Str(AddrA), Obj(AddrA)>>)
  /\ \E i \in DOMAIN sent : sent[i].address = AddrA /\ sent[i].at < now
  /\ last.op = "main" /\ last.address = AddrB /\ last.outcome = "alert"
  /\ last.prev_vol = None

\* C18: whether an alert is dispatched for an observation does not depend on
\* PREV_VOL_5M. An observation of the main loop is dispatched, or not, as it
\* would have been with any other remembered volume for its address, an
\* absent entry included; so two runs that differ only in PREV_VOL_5M call
\* send_telegram and add_history for the same sequence of addresses.
C18_DispatchIndependentOfPrev ==
  (last.op = "main" /\ last.vol5m # None /\ last.outcome # "print_raise") =>
    /\ (last.outcome \in {"alert", "price_raise"})
         <=> Dispatched(last.vol5m, last.prev_vol)
    /\ \A p \in FloatVals :
         Dispatched(last.vol5m, p) <=> Dispatched(last.vol5m, last.prev_vol)

\* C19: the addresses are handled in isolation. An iteration for address a
\* changes no entry of PREV_VOL_5M but the one of a; the previous volume it
\* reads is the entry of a; and the sink calls it makes are for a.
C19_PerAddressIsolation ==
  [][Iteration =>
       LET a == addresses[idx] IN
       /\ \A b \in AddrUniverse \ {a} : PREV_VOL_5M'[b] = PREV_VOL_5M[b]
       /\ last'.address = a
       /\ (pc = "main_loop" /\ last'.vol5m # None)
            => last'.prev_vol = PREV_VOL_5M[a]
       /\ last'.outcome \in {"alert", "price_raise"} =>
            sent' = Append(sent, [address |-> a, at |-> now])
       /\ last'.outcome = "alert" =>
            hist' = Append(hist, [address |-> a, at |-> now])
       /\ last'.outcome \notin {"alert", "price_raise"} => sent' = sent
       /\ last'.outcome # "alert" => hist' = hist]_vars
C19_Witness ==
  /\ pc = "main_loop" /\ addresses = <<AddrA, AddrB>> /\ idx = 3
  /\ last.op = "main" /\ last.address = AddrB /\ last.outcome = "alert"
  /\ last.vol5m = Num(ALERT_VOLUME_THRESHOLD)
  /\ last.prev_vol = NaN
  /\ PREV_VOL_5M[AddrA] = Num(ALERT_VOLUME_THRESHOLD - 1)
  /\ PREV_VOL_5M[AddrB] = Num(ALERT_VOLUME_THRESHOLD)
  /\ sent[Len(sent)].address = AddrB

====
